---- MODULE Spec2Model ----
(***************************************************************************)
(* PeepsEvaluator (utilities/evaluators/peeps_evaluator_handler.py): the   *)
(* evaluation callback, the iteration setter and the report renderer,      *)
(* together with the two stores they share; and PeepsAgentExecutorMixin    *)
(* (agents/agent_builder/base_agent_executor_mixin.py): the two methods     *)
(* that write an agent's output to the peeps' memory stores.               *)
(*                                                                         *)
(* Numbers.  Python floats are modelled as exact rationals [num, den] in   *)
(* lowest terms; int(x) is truncation toward zero.  Quality scores are     *)
(* whole numbers here, their means are rationals.                          *)
(* Dictionaries.  A dict is a sequence of [key, vals] entries in insertion *)
(* order; a defaultdict(list) inserts an empty list on a read of a missing *)
(* key.                                                                    *)
(***************************************************************************)
EXTENDS Integers, Sequences, FiniteSets, TLC

VARIABLES
    tasks,                \* peeps.tasks: the ordered task list
    tasks_scores,         \* PeepsEvaluator.tasks_scores (class attribute)
    run_execution_times,  \* PeepsEvaluator.run_execution_times (class attribute)
    iteration,            \* iteration as read through the evaluator in use
    call,                 \* the last operation, its arguments and how it ended
    before,               \* the two stores when that operation began
    report,               \* what the last print_peeps_evaluation_result produced
    saved,                \* every item the memory stores accepted, in order of save
    mixin_call            \* the last call of a mixin method and how it ended

evaluator_vars == <<tasks, tasks_scores, run_execution_times, iteration, call, before, report>>

memory_vars == <<saved, mixin_call>>

vars == <<evaluator_vars, memory_vars>>

----------------------------------------------------------------------------
\* Bounds of the model.

MaxEvals == 4
MaxEntries == 4
MaxSaved == 4

----------------------------------------------------------------------------
\* Exact rationals for Python floats.

RECURSIVE GCD(_, _)
GCD(a, b) == IF b = 0 THEN a ELSE GCD(b, a % b)

Abs(n) == IF n < 0 THEN -n ELSE n

\* n / d as a float, d # 0
Rat(n, d) ==
    LET g == GCD(Abs(n), Abs(d))
        s == IF d < 0 THEN -1 ELSE 1
    IN  [num |-> (s * n) \div g, den |-> (s * d) \div g]

RatAdd(x, y) == Rat(x.num * y.den + y.num * x.den, x.den * y.den)

RatDivInt(x, k) == Rat(x.num, x.den * k)

IntToRat(n) == [num |-> n, den |-> 1]

\* sum() over a list of ints
RECURSIVE SumInts(_)
SumInts(s) == IF s = <<>> THEN 0 ELSE Head(s) + SumInts(Tail(s))

\* sum() over a list of floats
RECURSIVE SumRats(_)
SumRats(s) == IF s = <<>> THEN IntToRat(0) ELSE RatAdd(Head(s), SumRats(Tail(s)))

\* int(x): truncation toward zero
IntOf(x) == IF x.num >= 0 THEN x.num \div x.den ELSE -((-x.num) \div x.den)

----------------------------------------------------------------------------
\* defaultdict(list), insertion-ordered.

EmptyDict == <<>>

DictKeys(d) == {d[i].key : i \in DOMAIN d}

DictHas(d, k) == k \in DictKeys(d)

DictPos(d, k) == CHOOSE i \in DOMAIN d : d[i].key = k

\* d[k] of a key that is present
DictGet(d, k) == d[DictPos(d, k)].vals

\* the dict after a read d[k]: a missing key is inserted with an empty list
DictTouch(d, k) == IF DictHas(d, k) THEN d ELSE Append(d, [key |-> k, vals |-> <<>>])

\* the dict after d[k].append(v)
DictAppend(d, k, v) ==
    LET t == DictTouch(d, k)
    IN  [i \in DOMAIN t |->
            IF t[i].key = k THEN [key |-> k, vals |-> Append(t[i].vals, v)] ELSE t[i]]

\* total number of list elements held
RECURSIVE DictSize(_)
DictSize(d) == IF d = <<>> THEN 0 ELSE Len(Head(d).vals) + DictSize(Tail(d))

----------------------------------------------------------------------------
\* The values the environment supplies.

\* Task.description values; Unknown is the description of no task of any list
Descriptions == {"research", "report"}
Unknown == "other"

\* TaskEvaluationPydanticOutput.quality as the evaluation produces it here.
\* evaluate stores the value and never looks at it; the renderer's arithmetic
\* runs over the qualities of ReportEvaluations.
Qualities == {9}

\* the iteration numbers the test loop passes to set_iteration
Iterations == {1, 2}

\* a Task: its description and its execution_duration, seconds (a float)
Task(description, duration) ==
    [description |-> description, execution_duration |-> duration]

\* the task lists a peeps may hold: one task; two tasks; two tasks sharing a
\* description.  Each task carries the duration of its last execution.
TaskLists ==
    { << Task("research", Rat(1, 2)) >>,
      << Task("research", IntToRat(42)) >>,
      << Task("research", IntToRat(42)), Task("report", Rat(1, 2)) >>,
      << Task("research", Rat(1, 2)), Task("research", IntToRat(42)) >> }

\* a TaskOutput argument: None, or an output carrying a description
NoneOutput == [is_none |-> TRUE, description |-> ""]

TaskOutputs ==
    {NoneOutput} \cup
    { [is_none |-> FALSE, description |-> d] : d \in Descriptions \cup {Unknown} }

\* what evaluation_task.execute_sync() does: it returns a result whose .pydantic
\* is a TaskEvaluationPydanticOutput, returns a result whose .pydantic is
\* something else, or raises
ExecResults ==
    { [kind |-> "pydantic", quality |-> q] : q \in Qualities } \cup
    { [kind |-> "other", quality |-> 0], [kind |-> "raises", quality |-> 0] }

----------------------------------------------------------------------------
\* How a call ends.

Ok == "ok"
InvalidInput == "ValueError: Task to evaluate and task output are required for evaluation"
FormatError == "ValueError: Evaluation result is not in the expected format"
AttributeError == "AttributeError"
ExecutionError == "execute_sync raised"
TelemetryError == "individual_test_result_span raised"
IndexError == "IndexError"
ZeroDivisionError == "ZeroDivisionError"

----------------------------------------------------------------------------
\* PeepsEvaluator.evaluate

\* FindTask with current_task starting at the first task instead of None
FindTask_DefaultFirst(tsk, desc) ==
    LET hits == {i \in DOMAIN tsk : tsk[i].description = desc}
    IN  IF hits = {} THEN 1 ELSE CHOOSE i \in hits : \A j \in hits : i <= j

\* FindTask without the break: the last task whose description equals desc
FindTask_LastMatch(tsk, desc) ==
    LET hits == {i \in DOMAIN tsk : tsk[i].description = desc}
    IN  IF hits = {} THEN 0 ELSE CHOOSE i \in hits : \A j \in hits : i >= j

\* the for loop of evaluate: the index of the first task whose description
\* equals desc, 0 when there is none
FindTask(tsk, desc) ==
    LET hits == {i \in DOMAIN tsk : tsk[i].description = desc}
    IN  IF hits = {} THEN 0 ELSE CHOOSE i \in hits : \A j \in hits : i <= j

\* Telemetry.individual_test_result_span: TRUE when the call raises.  The
\* method catches what its sink raises and returns normally.
individual_test_result_span(sink_error) == FALSE

\* RecordEvaluation without the second append
RecordEvaluation_ScoreOnly(scores, times, it, quality, duration) ==
    [tasks_scores        |-> DictAppend(scores, it, quality),
     run_execution_times |-> times]

\* the two appends that end the success branch
RecordEvaluation(scores, times, it, quality, duration) ==
    [tasks_scores        |-> DictAppend(scores, it, quality),
     run_execution_times |-> DictAppend(times, it, duration)]

\* evaluate with the duration appended before the isinstance test
evaluate_DurationBeforeCheck(tsk, scores, times, it, task_output, result, sink_error) ==
    LET same == [tasks_scores |-> scores, run_execution_times |-> times]
        current_task == IF task_output.is_none THEN 0
                        ELSE FindTask(tsk, task_output.description)
        timed == DictAppend(times, it, tsk[current_task].execution_duration)
    IN  IF task_output.is_none /\ tsk # <<>>
        THEN [status |-> AttributeError, executed |-> FALSE, stores |-> same]
        ELSE IF current_task = 0 \/ task_output.is_none
        THEN [status |-> InvalidInput, executed |-> FALSE, stores |-> same]
        ELSE IF result.kind = "raises"
        THEN [status |-> ExecutionError, executed |-> TRUE, stores |-> same]
        ELSE IF result.kind # "pydantic"
        THEN [status |-> FormatError, executed |-> TRUE,
              stores |-> [tasks_scores |-> scores, run_execution_times |-> timed]]
        ELSE [status |-> Ok, executed |-> TRUE,
              stores |-> [tasks_scores |-> DictAppend(scores, it, result.quality),
                          run_execution_times |-> timed]]

\* evaluate with the appends skipped once the telemetry sink has raised
evaluate_SinkErrorSkipsAppends(tsk, scores, times, it, task_output, result, sink_error) ==
    LET same == [tasks_scores |-> scores, run_execution_times |-> times]
        current_task == IF task_output.is_none THEN 0
                        ELSE FindTask(tsk, task_output.description)
    IN  IF task_output.is_none /\ tsk # <<>>
        THEN [status |-> AttributeError, executed |-> FALSE, stores |-> same]
        ELSE IF current_task = 0 \/ task_output.is_none
        THEN [status |-> InvalidInput, executed |-> FALSE, stores |-> same]
        ELSE IF result.kind = "raises"
        THEN [status |-> ExecutionError, executed |-> TRUE, stores |-> same]
        ELSE IF result.kind # "pydantic"
        THEN [status |-> FormatError, executed |-> TRUE, stores |-> same]
        ELSE IF sink_error
        THEN [status |-> Ok, executed |-> TRUE, stores |-> same]
        ELSE [status |-> Ok, executed |-> TRUE,
              stores |-> RecordEvaluation(scores, times, it, result.quality,
                                          tsk[current_task].execution_duration)]

\* evaluate(task_output) on an evaluator whose iteration is `it`: how the call
\* ends, whether execute_sync was called, and the stores after it
evaluate(tsk, scores, times, it, task_output, result, sink_error) ==
    LET same == [tasks_scores |-> scores, run_execution_times |-> times]
        current_task == IF task_output.is_none THEN 0
                        ELSE FindTask(tsk, task_output.description)
    IN  IF task_output.is_none /\ tsk # <<>>
        THEN [status |-> AttributeError, executed |-> FALSE, stores |-> same]
        ELSE IF current_task = 0 \/ task_output.is_none
        THEN [status |-> InvalidInput, executed |-> FALSE, stores |-> same]
        ELSE IF result.kind = "raises"
        THEN [status |-> ExecutionError, executed |-> TRUE, stores |-> same]
        ELSE IF result.kind # "pydantic"
        THEN [status |-> FormatError, executed |-> TRUE, stores |-> same]
        ELSE IF individual_test_result_span(sink_error)
        THEN [status |-> TelemetryError, executed |-> TRUE, stores |-> same]
        ELSE [status |-> Ok, executed |-> TRUE,
              stores |-> RecordEvaluation(scores, times, it, result.quality,
                                          tsk[current_task].execution_duration)]

----------------------------------------------------------------------------
\* PeepsEvaluator.print_peeps_evaluation_result

\* len of the shortest argument of zip(*d.values()); zip() of nothing is empty
ZipLen(d) ==
    IF d = <<>> THEN 0
    ELSE CHOOSE n \in {Len(d[i].vals) : i \in DOMAIN d} :
            \A i \in DOMAIN d : n <= Len(d[i].vals)

\* TaskAverages dividing by the number of scores per run instead of the number of runs
TaskAverages_DividesByTasks(scores) ==
    [i \in 1..ZipLen(scores) |->
        Rat(SumInts([j \in DOMAIN scores |-> scores[j].vals[i]]), ZipLen(scores))]

\* [sum(scores) / len(scores) for scores in zip(*self.tasks_scores.values())]
TaskAverages(scores) ==
    [i \in 1..ZipLen(scores) |->
        Rat(SumInts([j \in DOMAIN scores |-> scores[j].vals[i]]), Len(scores))]

\* the table's rows when nothing failed
NoTable ==
    [task_rows |-> <<>>, task_averages |-> <<>>, peeps_scores |-> <<>>,
     peeps_average |-> IntToRat(0), run_exec_times |-> <<>>, execution_time_avg |-> 0]

\* Failed with the exception swallowed: nothing is printed and the call returns
Failed_PrintsNothing(error, scores) ==
    [status |-> Ok, tasks_scores |-> scores, table |-> NoTable]

\* an exception leaves the method: nothing is printed
Failed(error, scores) == [status |-> error, tasks_scores |-> scores, table |-> NoTable]

\* the <<task_index, run>> pairs whose read self.tasks_scores[run][task_index]
\* raises, task_index from 0; runs is range(1, len(self.tasks_scores) + 1)
BadReads(scores, ntasks, runs) ==
    { p \in (0..(ntasks - 1)) \X runs :
        \/ ~DictHas(scores, p[2])
        \/ Len(DictGet(scores, p[2])) <= p[1] }

\* the first of them in the order of the two loops
FirstBadRead(bad) ==
    CHOOSE p \in bad : \A q \in bad : p[1] < q[1] \/ (p[1] = q[1] /\ p[2] <= q[2])

\* the runs whose read sum(self.tasks_scores[run]) / len(self.tasks_scores[run])
\* divides by zero
BadRuns(scores, runs) ==
    { r \in runs : ~DictHas(scores, r) \/ Len(DictGet(scores, r)) = 0 }

\* RunExecTimes with round-half-up in place of int()
RunExecTimes_Rounded(times) ==
    [j \in DOMAIN times |-> IntOf(RatAdd(SumRats(times[j].vals), Rat(1, 2)))]

\* RunExecTimes with the columns in decreasing order of insertion
RunExecTimes_Reversed(times) ==
    [j \in DOMAIN times |-> IntOf(SumRats(times[Len(times) + 1 - j].vals))]

\* [int(sum(tasks_exec_times)) for _, tasks_exec_times in self.run_execution_times.items()]
RunExecTimes(times) == [j \in DOMAIN times |-> IntOf(SumRats(times[j].vals))]

\* The whole method: how it ends, tasks_scores after it, and the table printed.
print_peeps_evaluation_result(tsk, scores, times) ==
    LET task_averages == TaskAverages(scores)
        runs == 1..Len(scores)
        ntasks == Len(tsk)
        bad == BadReads(scores, ntasks, runs)
        badruns == BadRuns(scores, runs)
        run_exec_times == RunExecTimes(times)
    IN  IF Len(task_averages) = 0
        THEN Failed(ZeroDivisionError, scores)
        ELSE IF bad # {}
        \* line 113: a missing key is inserted by the read, then the index fails
        THEN Failed(IndexError, DictTouch(scores, FirstBadRead(bad)[2]))
        ELSE IF ntasks > Len(task_averages)
        \* line 116: task_averages[task_index]
        THEN Failed(IndexError, scores)
        ELSE IF badruns # {}
        \* line 137: a missing key is inserted by the read, then len is 0
        THEN Failed(ZeroDivisionError,
                    DictTouch(scores, CHOOSE r \in badruns : \A q \in badruns : r <= q))
        ELSE IF Len(run_exec_times) = 0
        THEN Failed(ZeroDivisionError, scores)
        ELSE [status |-> Ok,
              tasks_scores |-> scores,
              table |->
                [task_rows |->
                    [t \in 1..ntasks |->
                        [scores |-> [r \in runs |-> DictGet(scores, r)[t]],
                         avg |-> task_averages[t]]],
                 task_averages |-> task_averages,
                 peeps_scores |->
                    [r \in runs |-> Rat(SumInts(DictGet(scores, r)), Len(DictGet(scores, r)))],
                 peeps_average |-> RatDivInt(SumRats(task_averages), Len(task_averages)),
                 run_exec_times |-> run_exec_times,
                 execution_time_avg |->
                    IntOf(Rat(SumInts(run_exec_times), Len(run_exec_times)))]]

----------------------------------------------------------------------------
\* PeepsEvaluator.set_iteration: self.iteration = iteration
set_iteration(n) == n

----------------------------------------------------------------------------
\* PeepsAgentExecutorMixin: _create_short_term_memory, _create_long_term_memory.
\* The memory stores and TaskEvaluator are collaborators: a store's save
\* accepts the item or raises, TaskEvaluator.evaluate returns or raises.

NoException == "none"

\* what a collaborator raises: an AttributeError, or another Exception
Raised == {"AttributeError", "RuntimeError"}

\* how a mixin method ends when no exception leaves it
Returned == "returned"

\* except clause `clause` handles an exception of class exc: the same class,
\* or Exception, the base of every class in Raised
Handles(clause, exc) == clause = exc \/ clause = "Exception"

\* how a method ends whose try block raised exc (NoException: it did not)
AfterTry(excepts, exc) ==
    IF exc = NoException \/ \E clause \in excepts : Handles(clause, exc)
    THEN Returned
    ELSE exc

\* the executor: which of the attributes the guards test are set (truthy)
Executor(peeps, memory, short_term, long_term, entity, task, agent) ==
    [peeps |-> peeps, memory |-> memory, short_term_memory |-> short_term,
     long_term_memory |-> long_term, entity_memory |-> entity,
     task |-> task, agent |-> agent]

FullExecutor == Executor(TRUE, TRUE, TRUE, TRUE, TRUE, TRUE, TRUE)

\* the executors the methods are called on: everything set, or one attribute unset
Executors ==
    {FullExecutor} \cup
    { [FullExecutor EXCEPT ![f] = FALSE] : f \in DOMAIN FullExecutor }

\* the items saved
ShortTermItem == [store |-> "short_term", item |-> "output.text"]
LongTermMemoryItem == [store |-> "long_term", item |-> "task.description"]
EntityMemoryItem(name) == [store |-> "entity", item |-> name]

\* evaluation.entities
EntityLists == { <<>>, <<"e1">>, <<"e1", "e2">> }

\* what TaskEvaluator(agent).evaluate(task, output.text) does: it raises, returns
\* a ConverterError, returns an object without the attributes of an evaluation,
\* or returns an evaluation with its entities
Evaluation(kind, exc, entities) == [kind |-> kind, exc |-> exc, entities |-> entities]

NoEvaluation == Evaluation("none", NoException, <<>>)

Evaluations ==
    { Evaluation("raises", e, <<>>) : e \in Raised } \cup
    { Evaluation("ConverterError", NoException, <<>>),
      Evaluation("no_attributes", NoException, <<>>) } \cup
    { Evaluation("evaluation", NoException, es) : es \in EntityLists }

\* what a save does: NoException, or the exception it raises
SaveOutcomes == {NoException} \cup Raised

\* which save of the entity loop raises (at = 0: none) and what
EntitySave(at, exc) == [at |-> at, exc |-> exc]

NoEntityFailure == EntitySave(0, NoException)

EntitySaves == {NoEntityFailure} \cup { EntitySave(i, e) : i \in 1..2, e \in Raised }

\* the except clause of _create_short_term_memory
ShortTermExcepts == {"Exception"}

\* the except clauses of _create_long_term_memory without `except Exception`
LongTermExcepts_AttributeOnly == {"AttributeError"}

\* the except clauses of _create_long_term_memory
LongTermExcepts == {"AttributeError", "Exception"}

\* _create_short_term_memory(output): how it ends and the items saved after it
_create_short_term_memory(log, self, delegating, save) ==
    IF ~(self.peeps /\ self.agent /\ self.task /\ ~delegating)
    THEN [status |-> Returned, saved |-> log]
    ELSE IF ~self.short_term_memory
    THEN [status |-> AfterTry(ShortTermExcepts, NoException), saved |-> log]
    ELSE IF save # NoException
    THEN [status |-> AfterTry(ShortTermExcepts, save), saved |-> log]
    ELSE [status |-> AfterTry(ShortTermExcepts, NoException),
          saved |-> Append(log, ShortTermItem)]

\* the for loop over evaluation.entities from entity i on: the items saved and
\* the exception that ended the loop
RECURSIVE SaveEntities(_, _, _, _)
SaveEntities(log, entities, i, entity_save) ==
    IF i > Len(entities) THEN [saved |-> log, exc |-> NoException]
    ELSE IF entity_save.at = i THEN [saved |-> log, exc |-> entity_save.exc]
    ELSE SaveEntities(Append(log, EntityMemoryItem(entities[i])), entities, i + 1,
                      entity_save)

\* _create_long_term_memory(output): how it ends and the items saved after it
_create_long_term_memory(log, self, evaluation, long_term_save, entity_save) ==
    LET entities == SaveEntities(Append(log, LongTermMemoryItem),
                                 evaluation.entities, 1, entity_save)
    IN  IF ~(self.peeps /\ self.memory /\ self.long_term_memory
             /\ self.entity_memory /\ self.task /\ self.agent)
        THEN [status |-> Returned, saved |-> log]
        ELSE IF evaluation.kind = "raises"
        THEN [status |-> AfterTry(LongTermExcepts, evaluation.exc), saved |-> log]
        ELSE IF evaluation.kind = "ConverterError"
        THEN [status |-> Returned, saved |-> log]
        ELSE IF evaluation.kind = "no_attributes"
        \* line 70: evaluation.quality
        THEN [status |-> AfterTry(LongTermExcepts, "AttributeError"), saved |-> log]
        ELSE IF long_term_save # NoException
        THEN [status |-> AfterTry(LongTermExcepts, long_term_save), saved |-> log]
        ELSE [status |-> AfterTry(LongTermExcepts, entities.exc),
              saved |-> entities.saved]

\* A call of a mixin method: what the collaborators did as far as the method
\* got to them, how many items were saved when it began, and how it ended.
MixinCalled(op, status, evaluation, long_term_save, entity_save, from) ==
    [op |-> op, status |-> status, evaluation |-> evaluation,
     save |-> long_term_save, entity_save |-> entity_save, from |-> from]

NoMixinCall == MixinCalled("none", Returned, NoEvaluation, NoException, NoEntityFailure, 0)

----------------------------------------------------------------------------
\* The state machine.

NoReport == [status |-> "none", table |-> NoTable]

NoResult == [kind |-> "none", quality |-> 0]

\* A call of evaluate: its task output, whether execute_sync was called and
\* what it returned, whether the telemetry sink raised, and how the call ended.
CalledEvaluate(status, task_output, executed, result, sink_error) ==
    [op |-> "evaluate", status |-> status, arg |-> 0, output |-> task_output,
     executed |-> executed, result |-> result, sink_error |-> sink_error]

\* A call of anything else, with its argument (0 when it has none).
Called(op, arg, status) ==
    [CalledEvaluate(status, NoneOutput, FALSE, NoResult, FALSE)
        EXCEPT !.op = op, !.arg = arg]

Snapshot(scores, times) == [tasks_scores |-> scores, run_execution_times |-> times]

Now == Snapshot(tasks_scores, run_execution_times)

\* The class statement and the first PeepsEvaluator(peeps, model): the stores
\* are the class's empty defaultdicts, iteration reads the class's 0.
Init ==
    /\ tasks \in TaskLists
    /\ tasks_scores = EmptyDict
    /\ run_execution_times = EmptyDict
    /\ iteration = 0
    /\ call = Called("init", 0, Ok)
    /\ before = Snapshot(EmptyDict, EmptyDict)
    /\ report = NoReport
    /\ saved = <<>>
    /\ mixin_call = NoMixinCall

\* __init__ of one more evaluator on the same peeps, which replaces the one in
\* use (every task's callback is bound to the new one).  It assigns neither
\* store, so the new evaluator reads the class's dictionaries, and its
\* iteration reads the class's 0.
PeepsEvaluator_init ==
    /\ iteration' = 0
    /\ call' = Called("init", 0, Ok)
    /\ before' = Now
    /\ report' = NoReport
    /\ UNCHANGED <<tasks, tasks_scores, run_execution_times>>
    /\ UNCHANGED memory_vars

\* SetIteration assigning a local instead of self.iteration
SetIteration_Ignored(n) ==
    /\ iteration' = iteration
    /\ call' = Called("set_iteration", n, Ok)
    /\ before' = Now
    /\ report' = NoReport
    /\ UNCHANGED <<tasks, tasks_scores, run_execution_times>>
    /\ UNCHANGED memory_vars

SetIteration(n) ==
    /\ iteration' = set_iteration(n)
    /\ call' = Called("set_iteration", n, Ok)
    /\ before' = Now
    /\ report' = NoReport
    /\ UNCHANGED <<tasks, tasks_scores, run_execution_times>>
    /\ UNCHANGED memory_vars

\* Evaluate moving on to the next iteration after each recorded evaluation
Evaluate_AutoIncrement(task_output, result, sink_error) ==
    LET r == evaluate(tasks, tasks_scores, run_execution_times, iteration,
                      task_output, result, sink_error)
    IN  /\ DictSize(tasks_scores) < MaxEvals
        /\ tasks_scores' = r.stores.tasks_scores
        /\ run_execution_times' = r.stores.run_execution_times
        /\ call' = CalledEvaluate(r.status, task_output, r.executed,
                                 IF r.executed THEN result ELSE NoResult,
                                 sink_error /\ r.status \in {Ok, TelemetryError})
        /\ before' = Now
        /\ report' = NoReport
        /\ iteration' = IF r.status = Ok /\ iteration + 1 \in Iterations
                        THEN iteration + 1 ELSE iteration
        /\ UNCHANGED tasks
        /\ UNCHANGED memory_vars

Evaluate(task_output, result, sink_error) ==
    LET r == evaluate(tasks, tasks_scores, run_execution_times, iteration,
                      task_output, result, sink_error)
    IN  /\ DictSize(tasks_scores) < MaxEvals
        /\ tasks_scores' = r.stores.tasks_scores
        /\ run_execution_times' = r.stores.run_execution_times
        /\ call' = CalledEvaluate(r.status, task_output, r.executed,
                                 IF r.executed THEN result ELSE NoResult,
                                 sink_error /\ r.status \in {Ok, TelemetryError})
        /\ before' = Now
        /\ report' = NoReport
        /\ UNCHANGED <<tasks, iteration>>
        /\ UNCHANGED memory_vars

Render ==
    LET r == print_peeps_evaluation_result(tasks, tasks_scores, run_execution_times)
    IN  /\ tasks_scores' = r.tasks_scores
        /\ call' = Called("render", 0, r.status)
        /\ before' = Now
        /\ report' = [status |-> r.status, table |-> r.table]
        /\ UNCHANGED <<tasks, run_execution_times, iteration>>
        /\ UNCHANGED memory_vars

Next ==
    \/ PeepsEvaluator_init
    \/ \E n \in Iterations : SetIteration(n)
    \/ \E o \in TaskOutputs, x \in ExecResults, s \in BOOLEAN : Evaluate(o, x, s)
    \/ Render

Spec == Init /\ [][Next]_vars

----------------------------------------------------------------------------
\* The renderer on its own: every store that at most MaxEntries evaluations
\* leave behind, with the scores and durations of the documented table among
\* them, and then print_peeps_evaluation_result.

\* one successful evaluation: the iteration it ran under, its quality, and the
\* execution_duration of its task
ReportEvaluations ==
    { [it |-> k, quality |-> e[1], duration |-> e[2]] :
        k \in Iterations,
        e \in { <<9, IntToRat(42)>>, <<9, IntToRat(10)>>, <<10, IntToRat(79)>>,
                <<8, IntToRat(20)>>, <<8, Rat(1, 2)>> } }

EmptyStores == [tasks_scores |-> EmptyDict, run_execution_times |-> EmptyDict]

\* the stores after the evaluations of a sequence, in order
RECURSIVE StoresAfter(_)
StoresAfter(evals) ==
    IF evals = <<>> THEN EmptyStores
    ELSE LET earlier == StoresAfter(SubSeq(evals, 1, Len(evals) - 1))
             e == evals[Len(evals)]
         IN  RecordEvaluation(earlier.tasks_scores, earlier.run_execution_times,
                              e.it, e.quality, e.duration)

ReportStores ==
    { StoresAfter(evals) :
        evals \in UNION { [1..n -> ReportEvaluations] : n \in 0..MaxEntries } }

ReportTaskLists ==
    { << Task("research", IntToRat(79)) >>,
      << Task("research", IntToRat(79)), Task("report", IntToRat(20)) >> }

LastIteration == CHOOSE n \in Iterations : \A m \in Iterations : m <= n

\* after the evaluations, the evaluator set to the last iteration
InitReport ==
    /\ tasks \in ReportTaskLists
    /\ \E st \in ReportStores :
          /\ tasks_scores = st.tasks_scores
          /\ run_execution_times = st.run_execution_times
          /\ before = Snapshot(st.tasks_scores, st.run_execution_times)
    /\ iteration = LastIteration
    /\ call = Called("set_iteration", LastIteration, Ok)
    /\ report = NoReport
    /\ saved = <<>>
    /\ mixin_call = NoMixinCall

NextReport == Render

SpecReport == InitReport /\ [][NextReport]_vars

----------------------------------------------------------------------------
\* The memory hooks on their own: the two methods called in any order on
\* executors with any of the guarded attributes unset, against collaborators
\* that raise at any point.

InitMemory ==
    /\ tasks \in { << Task("research", IntToRat(42)) >> }
    /\ tasks_scores = EmptyDict
    /\ run_execution_times = EmptyDict
    /\ iteration = 0
    /\ call = Called("init", 0, Ok)
    /\ before = Snapshot(EmptyDict, EmptyDict)
    /\ report = NoReport
    /\ saved = <<>>
    /\ mixin_call = NoMixinCall

CreateShortTermMemory(self, delegating, save) ==
    LET r == _create_short_term_memory(saved, self, delegating, save)
        reached == self.peeps /\ self.agent /\ self.task /\ ~delegating
                   /\ self.short_term_memory
    IN  /\ Len(saved) < MaxSaved
        /\ saved' = r.saved
        /\ mixin_call' = MixinCalled("_create_short_term_memory", r.status, NoEvaluation,
                                     IF reached THEN save ELSE NoException,
                                     NoEntityFailure, Len(saved))
        /\ UNCHANGED evaluator_vars

CreateLongTermMemory(self, evaluation, long_term_save, entity_save) ==
    LET r == _create_long_term_memory(saved, self, evaluation, long_term_save, entity_save)
        evaluated == self.peeps /\ self.memory /\ self.long_term_memory
                     /\ self.entity_memory /\ self.task /\ self.agent
        reached == evaluated /\ evaluation.kind = "evaluation"
        failed == reached /\ long_term_save = NoException
                  /\ entity_save.at \in 1..Len(evaluation.entities)
    IN  /\ Len(saved) < MaxSaved
        /\ saved' = r.saved
        /\ mixin_call' = MixinCalled("_create_long_term_memory", r.status,
                                     IF evaluated THEN evaluation ELSE NoEvaluation,
                                     IF reached THEN long_term_save ELSE NoException,
                                     IF failed THEN entity_save ELSE NoEntityFailure,
                                     Len(saved))
        /\ UNCHANGED evaluator_vars

NextMemory ==
    \/ \E self \in Executors, delegating \in BOOLEAN, save \in SaveOutcomes :
          CreateShortTermMemory(self, delegating, save)
    \/ \E self \in Executors, evaluation \in Evaluations,
          long_term_save \in SaveOutcomes, entity_save \in EntitySaves :
          CreateLongTermMemory(self, evaluation, long_term_save, entity_save)

SpecMemory == InitMemory /\ [][NextMemory]_vars

----------------------------------------------------------------------------
\* What the properties below speak of.

\* the sequence a store holds under key k, empty when the key is absent
ValsOf(d, k) == IF DictHas(d, k) THEN DictGet(d, k) ELSE <<>>

\* the tasks whose description equals that of a task output
Matching(o) == {i \in DOMAIN tasks : ~o.is_none /\ tasks[i].description = o.description}

\* the last call left both stores as it found them
StoresAsBefore ==
    /\ tasks_scores = before.tasks_scores
    /\ run_execution_times = before.run_execution_times

\* the last call appended one quality, and one duration of a task among `among`,
\* under key k
AppendedUnder(k, quality, among) ==
    /\ ValsOf(tasks_scores, k) = Append(ValsOf(before.tasks_scores, k), quality)
    /\ \E i \in among :
          ValsOf(run_execution_times, k) =
              Append(ValsOf(before.run_execution_times, k), tasks[i].execution_duration)

\* every key but k holds what it held when the last call began
OtherKeysAsBefore(k) ==
    \A j \in (DictKeys(tasks_scores) \cup DictKeys(before.tasks_scores)
              \cup DictKeys(run_execution_times)
              \cup DictKeys(before.run_execution_times)) \ {k} :
        /\ DictHas(tasks_scores, j) = DictHas(before.tasks_scores, j)
        /\ DictHas(run_execution_times, j) = DictHas(before.run_execution_times, j)
        /\ ValsOf(tasks_scores, j) = ValsOf(before.tasks_scores, j)
        /\ ValsOf(run_execution_times, j) = ValsOf(before.run_execution_times, j)

\* C1: an evaluate call whose description matches a task and whose result
\* carries a TaskEvaluationPydanticOutput appends exactly one score to the
\* current iteration's score sequence and exactly one duration, that of a
\* matching task, to the same iteration's duration sequence.
C1_WellFormedAppendsOne ==
    (call.op = "evaluate" /\ Matching(call.output) # {} /\ call.result.kind = "pydantic")
    => /\ AppendedUnder(iteration, call.result.quality, Matching(call.output))
       /\ DictSize(tasks_scores) = DictSize(before.tasks_scores) + 1
       /\ DictSize(run_execution_times) = DictSize(before.run_execution_times) + 1

C1_Witness ==
    /\ call.op = "evaluate" /\ call.status = Ok
    /\ Matching(call.output) # {} /\ call.result.kind = "pydantic"
    /\ Len(ValsOf(before.tasks_scores, iteration)) = 1
    /\ Len(ValsOf(tasks_scores, iteration)) = 2
    /\ Len(ValsOf(run_execution_times, iteration)) = 2

\* C2: when the evaluation returns a result whose payload is not a
\* TaskEvaluationPydanticOutput, evaluate fails with the format error and both
\* stores are as they were.
C2_FormatErrorLeavesStores ==
    (call.op = "evaluate" /\ call.executed /\ call.result.kind = "other")
    => /\ call.status = FormatError
       /\ StoresAsBefore

C2_Witness ==
    /\ call.op = "evaluate" /\ call.status = FormatError
    /\ call.executed /\ call.result.kind = "other"
    /\ tasks_scores # EmptyDict

\* C3: a task output whose description is that of no task makes evaluate fail
\* with the invalid-input error before execute_sync is called, both stores as
\* they were.
C3_UnknownDescriptionFails ==
    (call.op = "evaluate" /\ ~call.output.is_none /\ Matching(call.output) = {})
    => /\ call.status = InvalidInput
       /\ ~call.executed
       /\ StoresAsBefore

C3_Witness ==
    /\ call.op = "evaluate" /\ call.status = InvalidInput /\ ~call.executed
    /\ ~call.output.is_none /\ Matching(call.output) = {}
    /\ tasks_scores # EmptyDict

\* C4: a newly constructed evaluator starts with both stores empty, whatever
\* earlier evaluators have recorded.
C4_NewEvaluatorStartsEmpty ==
    call.op = "init" => (tasks_scores = EmptyDict /\ run_execution_times = EmptyDict)

C6_AppendsOnlyUnderCurrentKey ==
    /\ call.op = "set_iteration" => iteration = call.arg
    /\ (call.op = "evaluate" /\ call.status = Ok)
       => /\ AppendedUnder(iteration, call.result.quality, DOMAIN tasks)
          /\ OtherKeysAsBefore(iteration)

C6_Witness ==
    /\ call.op = "evaluate" /\ call.status = Ok
    /\ iteration = 2
    /\ Len(ValsOf(tasks_scores, 2)) = 2
    /\ Len(ValsOf(tasks_scores, 1)) = 1

\* some two iterations hold score sequences of different lengths
Mismatched(scores) ==
    \E i, j \in DOMAIN scores : Len(scores[i].vals) # Len(scores[j].vals)

\* C7: rendering while iterations hold score sequences of different lengths
\* fails; it never prints averages computed over the common prefix.
C7_MismatchedRenderFails ==
    (call.op = "render" /\ Mismatched(before.tasks_scores)) => report.status # Ok

\* C8: rendering leaves both stores as they were, whether it completes or fails.
C8_RenderLeavesStores ==
    call.op = "render" => StoresAsBefore

\* the scores all iterations hold at position i, summed
RECURSIVE ColumnSum(_, _)
ColumnSum(d, i) == IF d = <<>> THEN 0 ELSE Head(d).vals[i] + ColumnSum(Tail(d), i)

RECURSIVE ColumnsSum(_, _)
ColumnsSum(d, n) == IF n = 0 THEN 0 ELSE ColumnSum(d, n) + ColumnsSum(d, n - 1)

\* x is the mean of values that sum to total and number count
IsMean(x, total, count) == count > 0 /\ x.den > 0 /\ x.num * count = total * x.den

ExampleScores == << [key |-> 1, vals |-> <<9, 9>>], [key |-> 2, vals |-> <<10, 8>>] >>

\* C9: in a printed report, the average at task index i is the arithmetic mean
\* of the scores all iterations hold at index i, the "Avg. Total" cell of task
\* row i shows it, and the peeps average is the arithmetic mean of those
\* averages; scores [9, 9] and [10, 8] give 9.5, 8.5 and 9.0.
C9_AveragesAreMeans ==
    report.status = Ok =>
        LET t == report.table
            n == Len(t.task_averages)
        IN  /\ n >= 1
            /\ \A j \in DOMAIN tasks_scores : Len(tasks_scores[j].vals) >= n
            /\ \E j \in DOMAIN tasks_scores : Len(tasks_scores[j].vals) = n
            /\ \A i \in 1..n :
                  IsMean(t.task_averages[i], ColumnSum(tasks_scores, i), Len(tasks_scores))
            /\ \A i \in DOMAIN tasks : t.task_rows[i].avg = t.task_averages[i]
            \* the mean of n means of Len(tasks_scores) scores each
            /\ IsMean(t.peeps_average, ColumnsSum(tasks_scores, n), n * Len(tasks_scores))
            /\ tasks_scores = ExampleScores
               => /\ t.task_averages = << [num |-> 19, den |-> 2], [num |-> 17, den |-> 2] >>
                  /\ t.peeps_average = [num |-> 9, den |-> 1]

C9_Witness ==
    /\ report.status = Ok
    /\ tasks_scores = ExampleScores
    /\ Len(tasks) = 2
    /\ report.table.task_rows[1].avg = [num |-> 19, den |-> 2]
    /\ report.table.task_rows[2].avg = [num |-> 17, den |-> 2]
    /\ report.table.peeps_average = [num |-> 9, den |-> 1]

ExampleTimes ==
    << [key |-> 1, vals |-> <<IntToRat(42), IntToRat(10)>>],
       [key |-> 2, vals |-> <<IntToRat(79), IntToRat(20)>>] >>

\* n is x truncated toward zero, x >= 0
IsTruncationOf(n, x) == n * x.den <= x.num /\ x.num < (n + 1) * x.den

\* C10 as claimed: in a printed report every run's total execution time is the
\* sum of that run's durations, and the average execution time is the mean of
\* the totals truncated toward zero.
C10_TotalsAreSums ==
    report.status = Ok =>
        LET t == report.table
        IN  /\ Len(t.run_exec_times) = Len(run_execution_times)
            /\ \A j \in DOMAIN run_execution_times :
                  IntToRat(t.run_exec_times[j]) = SumRats(run_execution_times[j].vals)
            /\ IsTruncationOf(t.execution_time_avg,
                              Rat(SumInts(t.run_exec_times), Len(t.run_exec_times)))

\* C10, amended: in a printed report every run's total execution time is the
\* sum of that run's durations truncated toward zero to an integer, and the
\* average execution time is the mean of those totals truncated toward zero;
\* durations [42, 10] and [79, 20] give 52, 99 and 75.
C10_TotalsAreTruncatedSums ==
    report.status = Ok =>
        LET t == report.table
        IN  /\ Len(t.run_exec_times) = Len(run_execution_times)
            /\ \A j \in DOMAIN run_execution_times :
                  IsTruncationOf(t.run_exec_times[j], SumRats(run_execution_times[j].vals))
            /\ IsTruncationOf(t.execution_time_avg,
                              Rat(SumInts(t.run_exec_times), Len(t.run_exec_times)))
            /\ run_execution_times = ExampleTimes
               => /\ t.run_exec_times = <<52, 99>>
                  /\ t.execution_time_avg = 75

C10_Witness ==
    /\ report.status = Ok
    /\ run_execution_times = ExampleTimes
    /\ report.table.run_exec_times = <<52, 99>>
    /\ report.table.execution_time_avg = 75

\* C11: evaluate called with an absent task output fails with the
\* invalid-input error, not with an error of another kind, and both stores are
\* as they were.
C11_AbsentOutputIsInvalidInput ==
    (call.op = "evaluate" /\ call.output.is_none)
    => /\ call.status = InvalidInput
       /\ StoresAsBefore

\* C12: the current iteration changes only through set_iteration:
\* set_iteration(n) makes the iteration n and leaves both stores as they are,
\* and no evaluate call, whether it succeeds or fails, and no render call
\* changes the iteration.
C12_IterationOnlyBySetIteration ==
    [][ /\ call'.op = "set_iteration"
           => /\ iteration' = call'.arg
              /\ tasks_scores' = tasks_scores
              /\ run_execution_times' = run_execution_times
        /\ call'.op \in {"evaluate", "render"} => iteration' = iteration ]_vars

C12_Witness ==
    /\ call.op = "evaluate" /\ call.status = Ok
    /\ iteration = 1
    /\ Len(ValsOf(tasks_scores, 1)) = 2
    /\ ~DictHas(tasks_scores, 2)

\* the last element of a non-empty sequence
Last(s) == s[Len(s)]

\* C13: in every reachable state the two stores have the same iteration keys,
\* under every key the score sequence and the duration sequence have the same
\* length, and a recorded evaluation put its score and the execution_duration
\* of the task it evaluated at the same position of the two sequences.
C13_StoresAligned ==
    /\ DictKeys(tasks_scores) = DictKeys(run_execution_times)
    /\ \A k \in DictKeys(tasks_scores) \cup DictKeys(run_execution_times) :
          Len(ValsOf(tasks_scores, k)) = Len(ValsOf(run_execution_times, k))
    /\ (call.op = "evaluate" /\ call.status = Ok)
       => /\ Last(ValsOf(tasks_scores, iteration)) = call.result.quality
          /\ Last(ValsOf(run_execution_times, iteration)) =
                tasks[FindTask(tasks, call.output.description)].execution_duration

\* the earliest of a non-empty set of task indexes
Earliest(among) == CHOOSE i \in among : \A j \in among : i <= j

\* C14: evaluate selects the first task of the list whose description equals
\* the output's: whichever of the tasks sharing that description produced the
\* output, the duration appended is the execution_duration of the earliest of
\* them.
C14_FirstMatchDuration ==
    (call.op = "evaluate" /\ call.status = Ok)
    => \A producer \in Matching(call.output) :
          /\ Earliest(Matching(call.output)) <= producer
          /\ ValsOf(run_execution_times, iteration) =
                Append(ValsOf(before.run_execution_times, iteration),
                       tasks[Earliest(Matching(call.output))].execution_duration)

C14_Witness ==
    /\ call.op = "evaluate" /\ call.status = Ok
    /\ Matching(call.output) = {1, 2}
    /\ tasks[1].execution_duration # tasks[2].execution_duration
    /\ Last(ValsOf(run_execution_times, iteration)) = tasks[1].execution_duration

\* C15: rendering while the score store holds no score fails with an error and
\* prints no table.
C15_EmptyRenderFails ==
    (call.op = "render" /\ DictSize(before.tasks_scores) = 0)
    => /\ report.status \notin {Ok, NoReport.status}
       /\ report.table = NoTable

C15_Witness ==
    /\ call.op = "render"
    /\ before.tasks_scores = EmptyDict
    /\ tasks_scores = EmptyDict
    /\ report.status = ZeroDivisionError

\* what set_iteration(1), ..., set_iteration(N) in increasing order, each
\* followed by one recorded evaluation per task, leave in the two stores: the
\* keys 1..N inserted in that order, every one holding ntasks entries
InOrderRuns(scores, times, ntasks) ==
    /\ Len(scores) >= 1
    /\ Len(times) = Len(scores)
    /\ \A k \in DOMAIN scores :
          /\ scores[k].key = k
          /\ times[k].key = k
          /\ Len(scores[k].vals) = ntasks
          /\ Len(times[k].vals) = ntasks

\* C17: after set_iteration(1), ..., set_iteration(N) in increasing order with
\* one recorded evaluation per task in every iteration, rendering completes
\* and column "Run k" shows, for every k in 1..N, the scores recorded under
\* iteration k, their mean in the peeps row, and the total execution time
\* recorded under iteration k.
C17_RunColumnsAgree ==
    (call.op = "render"
     /\ InOrderRuns(before.tasks_scores, before.run_execution_times, Len(tasks)))
    => LET t == report.table
           N == Len(before.tasks_scores)
       IN  /\ report.status = Ok
           /\ Len(t.task_rows) = Len(tasks)
           /\ Len(t.peeps_scores) = N
           /\ Len(t.run_exec_times) = N
           /\ \A k \in 1..N :
                 /\ \A i \in DOMAIN tasks :
                       /\ Len(t.task_rows[i].scores) = N
                       /\ t.task_rows[i].scores[k] = ValsOf(before.tasks_scores, k)[i]
                 /\ IsMean(t.peeps_scores[k],
                           SumInts(ValsOf(before.tasks_scores, k)), Len(tasks))
                 /\ IsTruncationOf(t.run_exec_times[k],
                                   SumRats(ValsOf(before.run_execution_times, k)))

C17_Witness ==
    /\ call.op = "render" /\ report.status = Ok
    /\ Len(tasks) = 2
    /\ before.tasks_scores = ExampleScores
    /\ before.run_execution_times = ExampleTimes
    /\ report.table.task_rows[1].scores = <<9, 10>>
    /\ report.table.task_rows[2].scores = <<9, 8>>
    /\ report.table.run_exec_times = <<52, 99>>

\* the items the last mixin call saved, in order
NewlySaved == SubSeq(saved, mixin_call.from + 1, Len(saved))

\* the entity items of the first n entities of a list
EntityItems(entities, n) == [i \in 1..n |-> EntityMemoryItem(entities[i])]

\* C16: neither method lets an exception of the task evaluator or of a save
\* leave it: the call returns.  _create_long_term_memory saves the long-term
\* item before any entity item; when an entity save raises, the long-term item
\* and the entities before the failing one are saved and the rest are not;
\* when the evaluation is a ConverterError nothing is saved.
C16_MemoryFailuresCaught ==
    /\ mixin_call.op \in {"_create_short_term_memory", "_create_long_term_memory"}
       => mixin_call.status = Returned
    /\ (mixin_call.op = "_create_short_term_memory" /\ mixin_call.save # NoException)
       => NewlySaved = <<>>
    /\ mixin_call.op = "_create_long_term_memory"
       => /\ NewlySaved # <<>>
             => /\ NewlySaved[1] = LongTermMemoryItem
                /\ \A i \in 2..Len(NewlySaved) : NewlySaved[i].store = "entity"
          /\ mixin_call.evaluation.kind \in {"raises", "ConverterError"}
             => NewlySaved = <<>>
          /\ mixin_call.save # NoException => NewlySaved = <<>>
          /\ mixin_call.entity_save.at > 0
             => NewlySaved = <<LongTermMemoryItem>> \o
                   EntityItems(mixin_call.evaluation.entities,
                               mixin_call.entity_save.at - 1)

C16_Witness ==
    /\ mixin_call.op = "_create_long_term_memory"
    /\ mixin_call.status = Returned
    /\ mixin_call.evaluation.entities = <<"e1", "e2">>
    /\ mixin_call.entity_save = EntitySave(2, "RuntimeError")
    /\ mixin_call.from = 1
    /\ saved = <<ShortTermItem, LongTermMemoryItem, EntityMemoryItem("e1")>>

====
